---- MODULE Spec2Model ----
(***************************************************************************)
(* Model of src/src/context/StreamContext.tsx: the StreamProvider React    *)
(* component, its streamData state, the asynchronous commands              *)
(* (startPlaylistStream, stopStream, refreshStreamStatus), the playlist    *)
(* navigation handlers, the two interval effects and the platform          *)
(* connector (connectToPlatform, disconnectFromPlatform).                  *)
(*                                                                         *)
(* React state is modelled by two variables.  streamData is the state the  *)
(* functional updaters of setStreamData(prev => ...) are applied to.       *)
(* rendered is what the handlers and effects of the last committed render  *)
(* read through their closure (the identifier streamData inside the        *)
(* component body).  Render commits streamData and runs the effects.       *)
(***************************************************************************)
EXTENDS Integers, Sequences, FiniteSets, TLC

VARIABLES
    streamData,    \* useState value, lines 82-95
    rendered,      \* fields of streamData captured by the closures of the last render
    pending,       \* number of updates enqueued by setStreamData since the last render
    tickerTimer,   \* setInterval of lines 366-377: captured startTime, or Undefined
    pollerTimer,   \* setInterval of line 386 is scheduled
    startCall,     \* the startPlaylistStream call in flight, or Undefined
    stopCalls,     \* stopStream calls awaiting the remote response
    refreshCalls,  \* refreshStreamStatus calls awaiting the remote response
    now,           \* wall clock, milliseconds
    platformCalls, \* connectToPlatform and disconnectFromPlatform calls at their await
    lastOp         \* history variable: the step that produced this state

vars == <<streamData, rendered, pending, tickerTimer, pollerTimer, startCall,
          stopCalls, refreshCalls, now, platformCalls, lastOp>>

---------------------------------------------------------------------------
(* Bounds *)

MaxVideos == 2          \* longest video list the remote returns under SpecNav
SessionVideos == 1      \* longest video list the remote returns under Spec
MaxClock == 1           \* number of ticker periods the clock advances
MaxCalls == 2           \* calls awaiting the remote collaborator at one time
MaxPending == 2         \* updates enqueued between two renders

---------------------------------------------------------------------------
(* Values *)

Undefined == <<>>

TickerPeriod == 1000

NominalBitrate == 2500

PlaylistIds == {7}

PlaylistNome(playlistId) == "Playlist 7"

Date(ms) == [time |-> ms]

defaultPlatforms ==
    << [id |-> "youtube",   name |-> "YouTube",      enabled |-> FALSE, status |-> "disconnected"],
       [id |-> "instagram", name |-> "Instagram",    enabled |-> FALSE, status |-> "disconnected"],
       [id |-> "facebook",  name |-> "Facebook",     enabled |-> FALSE, status |-> "disconnected"],
       [id |-> "twitch",    name |-> "Twitch",       enabled |-> FALSE, status |-> "disconnected"],
       [id |-> "vimeo",     name |-> "Vimeo",        enabled |-> FALSE, status |-> "disconnected"],
       [id |-> "tiktok",    name |-> "TikTok",       enabled |-> FALSE, status |-> "disconnected"],
       [id |-> "periscope", name |-> "Periscope",    enabled |-> FALSE, status |-> "disconnected"],
       [id |-> "kwai",      name |-> "Kwai",         enabled |-> FALSE, status |-> "disconnected"],
       [id |-> "steam",     name |-> "Steam Valve",  enabled |-> FALSE, status |-> "disconnected"],
       [id |-> "rtmp",      name |-> "RTMP Proprio", enabled |-> FALSE, status |-> "disconnected"] >>

InitialStreamData ==
    [ isLive          |-> FALSE,
      streamUrl       |-> "",
      title           |-> "",
      viewers         |-> 0,
      uptime          |-> "00:00:00",
      bitrate         |-> 0,
      startTime       |-> Undefined,
      duration        |-> 0,
      platforms       |-> defaultPlatforms,
      wowzaStatus     |-> "offline",
      applicationName |-> "live",
      streamName      |-> "",
      currentPlaylist |-> Undefined,
      streamType      |-> "none" ]

\* setStreamData(prev => ({ ...prev, ...data }))
updateStreamData(prev, data) ==
    [f \in DOMAIN prev |-> IF f \in DOMAIN data THEN data[f] ELSE prev[f]]

\* setStreamData(updater): the update is enqueued; the state it yields is
\* kept in streamData and is committed by the next render
setStreamData(data) ==
    /\ pending < MaxPending
    /\ streamData' = updateStreamData(streamData, data)
    /\ pending' = pending + 1

\* the fields of streamData that handlers and effects read from their closure
ClosureFields == {"isLive", "startTime", "streamType", "currentPlaylist"}

Closure(sd) == [f \in ClosureFields |-> sd[f]]

\* number of start, stop and refresh calls suspended at an await
InFlight ==
    (IF startCall = Undefined THEN 0 ELSE 1) + Len(stopCalls) + Len(refreshCalls)

\* history: the step that produced the state
Did(op) == lastOp' = op

RemoveAt(s, i) == [j \in 1..(Len(s) - 1) |-> IF j < i THEN s[j] ELSE s[j + 1]]

---------------------------------------------------------------------------
(* Remote collaborator: the responses the endpoints can give *)

\* options argument of startPlaylistStream: fields left out take their default
StartOptions == { <<>>, [loop |-> FALSE, shuffle |-> TRUE] }

\* GET /api/playlists/{id}/videos: wrapper objects { videos: VideoRef }
PlaylistVideos(n) == [i \in 1..n |-> [videos |-> i]]

\* orders Array.prototype.sort may leave the array in under a random comparator
Orderings(videos) ==
    {[i \in 1..Len(videos) |-> videos[p[i]]] :
        p \in {q \in [1..Len(videos) -> 1..Len(videos)] :
                 \A a, b \in 1..Len(videos) : a # b => q[a] # q[b]}}

\* POST /api/streaming/start-internal and stop-internal: { success, ... }
StartResults ==
    { [success |-> TRUE, stream_url |-> "rtmp://host/live"],
      [success |-> FALSE, error |-> "remote refused"] }

StopResults == { [success |-> TRUE], [success |-> FALSE] }

Transmission ==
    [titulo |-> "Remote title",
     stats |-> [viewers |-> 120, bitrate |-> 3000, uptime |-> "00:05:00"]]

\* GET /api/streaming/status: { success, is_live, transmission? }
StatusResults ==
    { [success |-> TRUE,  is_live |-> TRUE,  transmission |-> Transmission],
      [success |-> TRUE,  is_live |-> FALSE, transmission |-> Undefined],
      [success |-> TRUE,  is_live |-> TRUE,  transmission |-> Undefined],
      [success |-> FALSE, is_live |-> FALSE, transmission |-> Undefined],
      [success |-> FALSE, is_live |-> TRUE,  transmission |-> Transmission] }

OrEmpty(result, field) == IF field \in DOMAIN result THEN result[field] ELSE ""

OrDefault(options, field, default) ==
    IF field \in DOMAIN options THEN options[field] ELSE default

---------------------------------------------------------------------------
(* Initial state: the component is mounted, the effects of the first       *)
(* render have run, the initial status check (lines 392-394) is in flight. *)

RefreshRequest(sd) == [sentLive |-> sd.isLive, stopped |-> FALSE]

Init ==
    /\ streamData = InitialStreamData
    /\ rendered = Closure(InitialStreamData)
    /\ pending = 0
    /\ tickerTimer = Undefined
    /\ pollerTimer = FALSE
    /\ startCall = Undefined
    /\ stopCalls = <<>>
    /\ refreshCalls = << RefreshRequest(InitialStreamData) >>
    /\ now = 0
    /\ platformCalls = <<>>
    /\ lastOp = "mount"

---------------------------------------------------------------------------
(* startPlaylistStream, lines 136-221 *)

\* lines 168-171: let finalVideos = [...videos]; sorted at random if options.shuffle
FinalVideos(videos, options) ==
    IF OrDefault(options, "shuffle", FALSE) THEN Orderings(videos) ELSE {videos}

\* StartPatch with currentVideoIndex: 1 and isPlaying: false
StartPatchAtSecond(call, result, time) ==
    [ isLive          |-> TRUE,
      streamUrl       |-> OrEmpty(result, "stream_url"),
      streamName      |-> OrEmpty(result, "stream_name"),
      title           |-> PlaylistNome(call.playlistId),
      startTime       |-> Date(time),
      viewers         |-> 0,
      bitrate         |-> NominalBitrate,
      wowzaStatus     |-> "online",
      streamType      |-> "playlist",
      currentPlaylist |->
          [ id                |-> call.playlistId,
            name              |-> PlaylistNome(call.playlistId),
            videos            |-> call.finalVideos,
            currentVideoIndex |-> 1,
            isPlaying         |-> FALSE,
            loop              |-> OrDefault(call.options, "loop", TRUE),
            shuffle           |-> OrDefault(call.options, "shuffle", FALSE) ] ]

\* lines 194-213: the data merged when result.success
StartPatch(call, result, time) ==
    [ isLive          |-> TRUE,
      streamUrl       |-> OrEmpty(result, "stream_url"),
      streamName      |-> OrEmpty(result, "stream_name"),
      title           |-> PlaylistNome(call.playlistId),
      startTime       |-> Date(time),
      viewers         |-> 0,
      bitrate         |-> NominalBitrate,
      wowzaStatus     |-> "online",
      streamType      |-> "playlist",
      currentPlaylist |->
          [ id                |-> call.playlistId,
            name              |-> PlaylistNome(call.playlistId),
            videos            |-> call.finalVideos,
            currentVideoIndex |-> 0,
            isPlaying         |-> TRUE,
            loop              |-> OrDefault(call.options, "loop", TRUE),
            shuffle           |-> OrDefault(call.options, "shuffle", FALSE) ] ]

\* the errors thrown before the video list is there: lines 138-143, 146, 157
StartLoadErrors == {"network error", "Playlist nao encontrada",
                    "Erro ao carregar videos da playlist"}

\* lines 138-158 throw: token or fetch failure, playlist not found, video
\* list not loaded.  Nothing was sent and nothing is merged.
StartPlaylistStreamFails(reason) ==
    /\ startCall = Undefined
    /\ reason \in StartLoadErrors
    /\ Did("start.rejected")
    /\ UNCHANGED <<streamData, rendered, pending, tickerTimer, pollerTimer,
                   startCall, stopCalls, refreshCalls, now, platformCalls>>

\* lines 136-189: the playlist and its n videos are loaded; an empty list
\* throws (line 164), otherwise the start request is sent and the call
\* suspends at line 174.  These lines read and write no state of the
\* component, so they are one step.
StartPlaylistStream(playlistId, options, n) ==
    /\ startCall = Undefined
    /\ LET videos == [i \in 1..n |-> PlaylistVideos(n)[i].videos] IN
         IF Len(videos) = 0
         THEN /\ UNCHANGED startCall
              /\ Did("start.rejected")
         ELSE /\ InFlight < MaxCalls
              /\ \E finalVideos \in FinalVideos(videos, options) :
                    startCall' = [ playlistId |-> playlistId, options |-> options,
                                   finalVideos |-> finalVideos, stopped |-> FALSE ]
              /\ Did("start.sent")
    /\ UNCHANGED <<streamData, rendered, pending, tickerTimer, pollerTimer,
                   stopCalls, refreshCalls, now, platformCalls>>

\* lines 191-216: the response of start-internal arrives
StartResponse(result) ==
    /\ startCall # Undefined
    /\ IF result.success
       THEN /\ setStreamData(StartPatch(startCall, result, now))
            /\ Did(IF startCall.stopped THEN "start.ok.stale" ELSE "start.ok")
       ELSE /\ UNCHANGED <<streamData, pending>>
            /\ Did("start.failed")
    /\ startCall' = Undefined
    /\ UNCHANGED <<rendered, tickerTimer, pollerTimer, stopCalls, refreshCalls, now, platformCalls>>

\* StartNetworkError merging isLive: true before it rethrows
StartNetworkErrorCommits ==
    /\ startCall # Undefined
    /\ startCall' = Undefined
    /\ setStreamData([isLive |-> TRUE])
    /\ Did("start.failed")
    /\ UNCHANGED <<rendered, tickerTimer, pollerTimer,
                   stopCalls, refreshCalls, now, platformCalls>>

\* line 174 or 191 throws: transport or parse failure of the start request
StartNetworkError ==
    /\ startCall # Undefined
    /\ startCall' = Undefined
    /\ Did("start.failed")
    /\ UNCHANGED <<streamData, rendered, pending, tickerTimer, pollerTimer,
                   stopCalls, refreshCalls, now, platformCalls>>

---------------------------------------------------------------------------
(* stopStream, lines 223-260 *)

\* StopPatch without currentPlaylist: undefined
StopPatchKeepsPlaylist ==
    [ isLive          |-> FALSE,
      streamUrl       |-> "",
      viewers         |-> 0,
      uptime          |-> "00:00:00",
      bitrate         |-> 0,
      duration        |-> 0,
      startTime       |-> Undefined,
      wowzaStatus     |-> "offline",
      streamName      |-> "",
      streamType      |-> "none" ]

\* lines 240-252: the data merged when result.success
StopPatch ==
    [ isLive          |-> FALSE,
      streamUrl       |-> "",
      viewers         |-> 0,
      uptime          |-> "00:00:00",
      bitrate         |-> 0,
      duration        |-> 0,
      startTime       |-> Undefined,
      wowzaStatus     |-> "offline",
      streamName      |-> "",
      streamType      |-> "none",
      currentPlaylist |-> Undefined ]

\* lines 225-235: the stop request is sent; origin (history) tells who called
StopStream ==
    /\ InFlight < MaxCalls
    /\ stopCalls' = Append(stopCalls, [origin |-> "caller"])
    /\ Did("stop.call")
    /\ UNCHANGED <<streamData, rendered, pending, tickerTimer, pollerTimer,
                   startCall, refreshCalls, now, platformCalls>>

\* history: the calls in flight when a stop succeeds are marked
MarkStopped(calls) ==
    [i \in 1..Len(calls) |-> [calls[i] EXCEPT !.stopped = calls[i].sentLive]]

\* lines 237-255: the response of stop-internal arrives
StopResponse(i, result) ==
    /\ i \in 1..Len(stopCalls)
    /\ stopCalls' = RemoveAt(stopCalls, i)
    /\ IF result.success
       THEN /\ setStreamData(StopPatch)
            /\ startCall' = IF startCall = Undefined THEN Undefined
                            ELSE [startCall EXCEPT !.stopped = TRUE]
            /\ refreshCalls' = MarkStopped(refreshCalls)
            /\ Did(IF stopCalls[i].origin = "nextVideo" THEN "stop.ok.nextVideo" ELSE "stop.ok")
       ELSE /\ UNCHANGED <<streamData, pending, startCall, refreshCalls>>
            /\ Did(IF stopCalls[i].origin = "nextVideo" THEN "stop.failed.nextVideo" ELSE "stop.failed")
    /\ UNCHANGED <<rendered, tickerTimer, pollerTimer, now, platformCalls>>

\* line 226 or 237 throws: transport or parse failure of the stop request
StopNetworkError(i) ==
    /\ i \in 1..Len(stopCalls)
    /\ stopCalls' = RemoveAt(stopCalls, i)
    /\ Did(IF stopCalls[i].origin = "nextVideo" THEN "stop.failed.nextVideo" ELSE "stop.failed")
    /\ UNCHANGED <<streamData, rendered, pending, tickerTimer, pollerTimer,
                   startCall, refreshCalls, now, platformCalls>>

---------------------------------------------------------------------------
(* refreshStreamStatus, lines 262-293 *)

\* StatusLivePatch with streamType: 'obs' added
StatusLivePatchSetsKind(transmission) ==
    [ isLive      |-> TRUE,
      viewers     |-> transmission.stats.viewers,
      bitrate     |-> transmission.stats.bitrate,
      uptime      |-> transmission.stats.uptime,
      title       |-> transmission.titulo,
      wowzaStatus |-> "online",
      streamType  |-> "obs" ]

\* lines 272-279: the data merged when the remote reports a live transmission
StatusLivePatch(transmission) ==
    [ isLive      |-> TRUE,
      viewers     |-> transmission.stats.viewers,
      bitrate     |-> transmission.stats.bitrate,
      uptime      |-> transmission.stats.uptime,
      title       |-> transmission.titulo,
      wowzaStatus |-> "online" ]

\* StatusOfflinePatch without isLive: false
StatusOfflinePatchKeepsLive ==
    [ viewers     |-> 0,
      bitrate     |-> 0,
      uptime      |-> "00:00:00",
      wowzaStatus |-> "offline" ]

\* lines 281-287: the data merged otherwise
StatusOfflinePatch ==
    [ isLive      |-> FALSE,
      viewers     |-> 0,
      bitrate     |-> 0,
      uptime      |-> "00:00:00",
      wowzaStatus |-> "offline" ]

\* StatusErrorPatch with isLive: false added
StatusErrorPatchClearsLive == [wowzaStatus |-> "error", isLive |-> FALSE]

\* line 291: the data merged when the request or its parsing throws
StatusErrorPatch == [wowzaStatus |-> "error"]

\* line 270: result.success && result.is_live && result.transmission
ReportsLive(result) ==
    result.success /\ result.is_live /\ result.transmission # Undefined

\* a consumer calls refreshStreamStatus; it suspends at line 264
RefreshStreamStatus ==
    /\ InFlight < MaxCalls
    /\ refreshCalls' = Append(refreshCalls, RefreshRequest(streamData))
    /\ Did("refresh.call")
    /\ UNCHANGED <<streamData, rendered, pending, tickerTimer, pollerTimer,
                   startCall, stopCalls, now, platformCalls>>

\* lines 268-288: the response of the status endpoint arrives
RefreshResponse(i, result) ==
    /\ i \in 1..Len(refreshCalls)
    /\ refreshCalls' = RemoveAt(refreshCalls, i)
    /\ IF ReportsLive(result)
       THEN /\ setStreamData(StatusLivePatch(result.transmission))
            /\ Did(IF refreshCalls[i].stopped THEN "refresh.live.stale" ELSE "refresh.live")
       ELSE /\ setStreamData(StatusOfflinePatch)
            /\ Did("refresh.notLive")
    /\ UNCHANGED <<rendered, tickerTimer, pollerTimer, startCall, stopCalls, now, platformCalls>>

\* lines 289-292: the request or the parsing of its response throws
RefreshError(i) ==
    /\ i \in 1..Len(refreshCalls)
    /\ refreshCalls' = RemoveAt(refreshCalls, i)
    /\ setStreamData(StatusErrorPatch)
    /\ Did("refresh.error")
    /\ UNCHANGED <<rendered, tickerTimer, pollerTimer, startCall, stopCalls, now, platformCalls>>

---------------------------------------------------------------------------
(* Playlist navigation, lines 295-360.  The handlers read currentPlaylist  *)
(* from their closure and merge a whole new currentPlaylist object.        *)

\* lines 299-309: end of a playlist that does not loop
NextVideoStops(playlist) ==
    /\ playlist.currentVideoIndex + 1 >= Len(playlist.videos)
    /\ ~playlist.loop

\* NextIndex with > for >= at line 301
NextIndexPastEnd(playlist) ==
    IF playlist.currentVideoIndex + 1 > Len(playlist.videos)
    THEN 0
    ELSE playlist.currentVideoIndex + 1

\* lines 299-304
NextIndex(playlist) ==
    IF playlist.currentVideoIndex + 1 >= Len(playlist.videos)
    THEN 0
    ELSE playlist.currentVideoIndex + 1

\* PrevIndex clamping at 0 instead of wrapping at line 326
PrevIndexClamped(playlist) ==
    IF playlist.currentVideoIndex - 1 < 0
    THEN 0
    ELSE playlist.currentVideoIndex - 1

\* lines 323-327
PrevIndex(playlist) ==
    IF playlist.currentVideoIndex - 1 < 0
    THEN Len(playlist.videos) - 1
    ELSE playlist.currentVideoIndex - 1

\* ValidIndex with <= for < at line 341
ValidIndexInclusive(playlist, index) == index >= 0 /\ index <= Len(playlist.videos)

\* ValidIndex without the lower bound index >= 0 of line 341
ValidIndexNoLowerBound(playlist, index) == index < Len(playlist.videos)

\* line 341
ValidIndex(playlist, index) == index >= 0 /\ index < Len(playlist.videos)

\* lines 311-316: the currentPlaylist nextVideo merges
NextVideoUpdate(playlist) ==
    [playlist EXCEPT !.currentVideoIndex = NextIndex(playlist)]

\* lines 329-334: the currentPlaylist previousVideo merges
PreviousVideoUpdate(playlist) ==
    [playlist EXCEPT !.currentVideoIndex = PrevIndex(playlist)]

NextVideo ==
    IF rendered.currentPlaylist = Undefined
    THEN /\ Did("nextVideo.noPlaylist")
         /\ UNCHANGED <<streamData, rendered, pending, tickerTimer, pollerTimer,
                        startCall, stopCalls, refreshCalls, now, platformCalls>>
    ELSE IF NextVideoStops(rendered.currentPlaylist)
    THEN /\ InFlight < MaxCalls
         /\ stopCalls' = Append(stopCalls, [origin |-> "nextVideo"])
         /\ Did("nextVideo.stop")
         /\ UNCHANGED <<streamData, rendered, pending, tickerTimer, pollerTimer,
                        startCall, refreshCalls, now, platformCalls>>
    ELSE /\ setStreamData([currentPlaylist |-> NextVideoUpdate(rendered.currentPlaylist)])
         /\ Did("nextVideo")
         /\ UNCHANGED <<rendered, tickerTimer, pollerTimer,
                        startCall, stopCalls, refreshCalls, now, platformCalls>>

PreviousVideo ==
    IF rendered.currentPlaylist = Undefined
    THEN /\ Did("previousVideo.noPlaylist")
         /\ UNCHANGED <<streamData, rendered, pending, tickerTimer, pollerTimer,
                        startCall, stopCalls, refreshCalls, now, platformCalls>>
    ELSE /\ setStreamData([currentPlaylist |-> PreviousVideoUpdate(rendered.currentPlaylist)])
         /\ Did("previousVideo")
         /\ UNCHANGED <<rendered, tickerTimer, pollerTimer,
                        startCall, stopCalls, refreshCalls, now, platformCalls>>

PlayVideo(index) ==
    IF rendered.currentPlaylist = Undefined
    THEN /\ Did("playVideo.noPlaylist")
         /\ UNCHANGED <<streamData, rendered, pending, tickerTimer, pollerTimer,
                        startCall, stopCalls, refreshCalls, now, platformCalls>>
    ELSE IF ValidIndex(rendered.currentPlaylist, index)
    THEN /\ setStreamData([currentPlaylist |->
                    [rendered.currentPlaylist EXCEPT !.currentVideoIndex = index]])
         /\ Did("playVideo")
         /\ UNCHANGED <<rendered, tickerTimer, pollerTimer,
                        startCall, stopCalls, refreshCalls, now, platformCalls>>
    ELSE /\ Did("playVideo.ignored")
         /\ UNCHANGED <<streamData, rendered, pending, tickerTimer, pollerTimer,
                        startCall, stopCalls, refreshCalls, now, platformCalls>>

TogglePlayPause ==
    IF rendered.currentPlaylist = Undefined
    THEN /\ Did("togglePlayPause.noPlaylist")
         /\ UNCHANGED <<streamData, rendered, pending, tickerTimer, pollerTimer,
                        startCall, stopCalls, refreshCalls, now, platformCalls>>
    ELSE /\ setStreamData([currentPlaylist |->
                    [rendered.currentPlaylist EXCEPT
                        !.isPlaying = ~rendered.currentPlaylist.isPlaying]])
         /\ Did("togglePlayPause")
         /\ UNCHANGED <<rendered, tickerTimer, pollerTimer,
                        startCall, stopCalls, refreshCalls, now, platformCalls>>

---------------------------------------------------------------------------
(* Render and effects, lines 363-389 *)

\* line 364: the ticker effect schedules its interval
TickerWanted(sd) == sd.isLive /\ sd.startTime # Undefined

\* line 384: the poller effect schedules its interval
PollerWanted(sd) == sd.isLive

\* React commits streamData: the closures are renewed and each effect whose
\* dependencies changed runs its cleanup (clearInterval) and its body
Render ==
    /\ pending > 0
    /\ rendered' = Closure(streamData)
    /\ pending' = 0
    /\ tickerTimer' =
         IF rendered.isLive # streamData.isLive \/ rendered.startTime # streamData.startTime
         THEN (IF TickerWanted(streamData) THEN streamData.startTime ELSE Undefined)
         ELSE tickerTimer
    /\ pollerTimer' =
         IF rendered.isLive # streamData.isLive
         THEN PollerWanted(streamData)
         ELSE pollerTimer
    /\ Did("render")
    /\ UNCHANGED <<streamData, startCall, stopCalls, refreshCalls, now, platformCalls>>

\* padStart(2, '0')
Pad2(n) == IF n < 10 THEN "0" \o ToString(n) ELSE ToString(n)

\* lines 368-374
Uptime(diff) ==
    Pad2(diff \div (1000 * 60 * 60)) \o ":" \o
    Pad2((diff % (1000 * 60 * 60)) \div (1000 * 60)) \o ":" \o
    Pad2((diff % (1000 * 60)) \div 1000)

\* lines 366-377: the interval callback of the ticker
TickerFire ==
    /\ tickerTimer # Undefined
    /\ LET diff == now - tickerTimer.time IN
         setStreamData([uptime |-> Uptime(diff), duration |-> diff \div 1000])
    /\ Did("ticker.fire")
    /\ UNCHANGED <<rendered, tickerTimer, pollerTimer,
                   startCall, stopCalls, refreshCalls, now, platformCalls>>

\* line 386: the interval callback of the poller calls refreshStreamStatus
PollerFire ==
    /\ pollerTimer
    /\ InFlight < MaxCalls
    /\ refreshCalls' = Append(refreshCalls, RefreshRequest(streamData))
    /\ Did("poller.fire")
    /\ UNCHANGED <<streamData, rendered, pending, tickerTimer, pollerTimer,
                   startCall, stopCalls, now, platformCalls>>

\* time passes
ClockAdvance ==
    /\ now < MaxClock * TickerPeriod
    /\ now' = now + TickerPeriod
    /\ Did("clock")
    /\ UNCHANGED <<streamData, rendered, pending, tickerTimer, pollerTimer,
                   startCall, stopCalls, refreshCalls, platformCalls>>

---------------------------------------------------------------------------

\* the streaming session with all its operations, playlists of at most
\* SessionVideos videos
Next ==
    \/ \E playlistId \in PlaylistIds, options \in StartOptions, n \in 0..SessionVideos :
          StartPlaylistStream(playlistId, options, n)
    \/ \E reason \in StartLoadErrors :
          StartPlaylistStreamFails(reason)
    \/ \E result \in StartResults : StartResponse(result)
    \/ StartNetworkError
    \/ StopStream
    \/ \E i \in 1..MaxCalls, result \in StopResults : StopResponse(i, result)
    \/ \E i \in 1..MaxCalls : StopNetworkError(i)
    \/ RefreshStreamStatus
    \/ \E i \in 1..MaxCalls, result \in StatusResults : RefreshResponse(i, result)
    \/ \E i \in 1..MaxCalls : RefreshError(i)
    \/ NextVideo
    \/ PreviousVideo
    \/ \E index \in -1..SessionVideos : PlayVideo(index)
    \/ TogglePlayPause
    \/ Render
    \/ TickerFire
    \/ PollerFire
    \/ ClockAdvance

Spec == Init /\ [][Next]_vars

---------------------------------------------------------------------------
(* The playlist sequencer on its own: start, stop, navigation and render,  *)
(* playlists of at most MaxVideos videos.  It begins where the initial     *)
(* status check has answered not-live and the answer has been rendered.    *)

InitNav ==
    /\ streamData = updateStreamData(InitialStreamData, StatusOfflinePatch)
    /\ rendered = Closure(InitialStreamData)
    /\ pending = 0
    /\ tickerTimer = Undefined
    /\ pollerTimer = FALSE
    /\ startCall = Undefined
    /\ stopCalls = <<>>
    /\ refreshCalls = <<>>
    /\ now = 0
    /\ platformCalls = <<>>
    /\ lastOp = "render"

NextNav ==
    \/ \E playlistId \in PlaylistIds, options \in StartOptions, n \in 0..MaxVideos :
          StartPlaylistStream(playlistId, options, n)
    \/ \E reason \in StartLoadErrors :
          StartPlaylistStreamFails(reason)
    \/ \E result \in StartResults : StartResponse(result)
    \/ StartNetworkError
    \/ StopStream
    \/ \E i \in 1..MaxCalls, result \in StopResults : StopResponse(i, result)
    \/ \E i \in 1..MaxCalls : StopNetworkError(i)
    \/ NextVideo
    \/ PreviousVideo
    \/ \E index \in -1..MaxVideos : PlayVideo(index)
    \/ TogglePlayPause
    \/ Render

SpecNav == InitNav /\ [][NextNav]_vars

---------------------------------------------------------------------------
(* Platform connector, lines 101-134.  Both commands await a timer that    *)
(* always resolves, so their catch blocks (status 'error') never run.      *)

\* line 115: setTimeout(resolve, 2000)
ConnectDelay == 2000

\* line 127: setTimeout(resolve, 1000)
DisconnectDelay == 1000

\* the step in which the time of the two timers passes
PlatformTimeStep == 1000

\* the platforms the commands are called on
PlatformIds == {"youtube", "rtmp"}

\* lines 102-107: prev => ({ ...prev, platforms: prev.platforms.map(...) })
updatePlatformConfig(prev, platformId, config) ==
    [prev EXCEPT !.platforms =
        [k \in DOMAIN prev.platforms |->
            IF prev.platforms[k].id = platformId
            THEN [f \in DOMAIN prev.platforms[k] |->
                    IF f \in DOMAIN config THEN config[f] ELSE prev.platforms[k][f]]
            ELSE prev.platforms[k]]]

\* setStreamData with the updater of updatePlatformConfig
setPlatformConfig(platformId, config) ==
    /\ pending < MaxPending
    /\ streamData' = updatePlatformConfig(streamData, platformId, config)
    /\ pending' = pending + 1

\* lines 110-115: status 'connecting' is merged and the call awaits its timer
ConnectToPlatform(platformId) ==
    /\ Len(platformCalls) < MaxCalls
    /\ setPlatformConfig(platformId, [status |-> "connecting"])
    /\ platformCalls' = Append(platformCalls,
            [platformId |-> platformId, kind |-> "connect", remaining |-> ConnectDelay])
    /\ Did("connect.call")
    /\ UNCHANGED <<rendered, tickerTimer, pollerTimer, startCall, stopCalls,
                   refreshCalls, now>>

\* lines 124-127: the call awaits its timer; nothing is merged yet
DisconnectFromPlatform(platformId) ==
    /\ Len(platformCalls) < MaxCalls
    /\ platformCalls' = Append(platformCalls,
            [platformId |-> platformId, kind |-> "disconnect", remaining |-> DisconnectDelay])
    /\ Did("disconnect.call")
    /\ UNCHANGED <<streamData, rendered, pending, tickerTimer, pollerTimer,
                   startCall, stopCalls, refreshCalls, now>>

\* lines 117 and 129: the timer of call i has expired and the call resumes
PlatformTimerFires(i) ==
    /\ i \in 1..Len(platformCalls)
    /\ platformCalls[i].remaining = 0
    /\ platformCalls' = RemoveAt(platformCalls, i)
    /\ IF platformCalls[i].kind = "connect"
       THEN /\ setPlatformConfig(platformCalls[i].platformId, [status |-> "connected"])
            /\ Did("connect.ok")
       ELSE /\ setPlatformConfig(platformCalls[i].platformId, [status |-> "disconnected"])
            /\ Did("disconnect.ok")
    /\ UNCHANGED <<rendered, tickerTimer, pollerTimer, startCall, stopCalls,
                   refreshCalls, now>>

\* time passes for the timers of the calls in flight; an expired timer fires
\* before more time passes
PlatformTimePasses ==
    /\ platformCalls # <<>>
    /\ \A i \in 1..Len(platformCalls) : platformCalls[i].remaining > 0
    /\ platformCalls' =
          [i \in 1..Len(platformCalls) |->
              [platformCalls[i] EXCEPT !.remaining = @ - PlatformTimeStep]]
    /\ Did("platform.time")
    /\ UNCHANGED <<streamData, rendered, pending, tickerTimer, pollerTimer,
                   startCall, stopCalls, refreshCalls, now>>

\* the platform connector on its own, from the idle rendered state of InitNav
NextPlatform ==
    \/ \E platformId \in PlatformIds : ConnectToPlatform(platformId)
    \/ \E platformId \in PlatformIds : DisconnectFromPlatform(platformId)
    \/ \E i \in 1..MaxCalls : PlatformTimerFires(i)
    \/ PlatformTimePasses
    \/ Render

SpecPlatform == InitNav /\ [][NextPlatform]_vars

---------------------------------------------------------------------------
(* The reconciliation loop under fair scheduling: the initial status check, *)
(* the poller, start and stop of a session, and render.  React commits a    *)
(* pending update, an interval that stays scheduled fires, and a request    *)
(* sent to the remote collaborator is answered or fails.                    *)

StatusAnswered ==
    \/ \E i \in 1..MaxCalls, result \in StatusResults : RefreshResponse(i, result)
    \/ \E i \in 1..MaxCalls : RefreshError(i)

StartAnswered ==
    \/ \E result \in StartResults : StartResponse(result)
    \/ StartNetworkError

StopAnswered ==
    \/ \E i \in 1..MaxCalls, result \in StopResults : StopResponse(i, result)
    \/ \E i \in 1..MaxCalls : StopNetworkError(i)

NextPoll ==
    \/ \E playlistId \in PlaylistIds, options \in StartOptions, n \in 1..SessionVideos :
          StartPlaylistStream(playlistId, options, n)
    \/ StartAnswered
    \/ StopStream
    \/ StopAnswered
    \/ RefreshStreamStatus
    \/ StatusAnswered
    \/ PollerFire
    \/ Render

SpecPoll ==
    /\ Init
    /\ [][NextPoll]_vars
    /\ WF_vars(Render)
    /\ WF_vars(PollerFire)
    /\ WF_vars(StatusAnswered)
    /\ WF_vars(StartAnswered)
    /\ WF_vars(StopAnswered)

---------------------------------------------------------------------------
(* Properties *)

Playlist == streamData.currentPlaylist

ReadPlaylist == rendered.currentPlaylist

\* the session part of the idle baseline
Idle(sd) ==
    /\ ~sd.isLive
    /\ sd.streamType = "none"
    /\ sd.currentPlaylist = Undefined

\* the idle baseline stopStream resets to
IdleBaseline(sd) ==
    /\ Idle(sd)
    /\ sd.startTime = Undefined
    /\ sd.viewers = 0
    /\ sd.bitrate = 0
    /\ sd.duration = 0
    /\ sd.uptime = "00:00:00"
    /\ sd.wowzaStatus = "offline"

\* C1: in every reachable state the playback state (currentPlaylist) is
\* present if and only if sessionKind (streamType) is playlist.
C1_PlaybackIffPlaylist ==
    (Playlist # Undefined) <=> (streamData.streamType = "playlist")

\* C2: in every reachable state startTime is present if and only if isLive.
C2_StartTimeIffLive ==
    (streamData.startTime # Undefined) <=> streamData.isLive

\* C3: in every reachable state isLive = true implies sessionKind is not none.
C3_LiveHasSessionKind ==
    streamData.isLive => streamData.streamType # "none"

\* C4: whenever a playback state exists its video sequence is non-empty and
\* currentVideoIndex is an index into it, 0 <= currentVideoIndex < length.
C4_IndexValid ==
    Playlist # Undefined =>
        /\ Len(Playlist.videos) >= 1
        /\ Playlist.currentVideoIndex >= 0
        /\ Playlist.currentVideoIndex < Len(Playlist.videos)

\* a navigation has moved the index of a two-video playlist to its last video
C4_Witness ==
    /\ lastOp \in {"nextVideo", "previousVideo", "playVideo"}
    /\ Playlist # Undefined
    /\ Len(Playlist.videos) = 2
    /\ Playlist.currentVideoIndex = 1

\* C5: the response of a start request that was in flight when a stop
\* succeeded does not resurrect the session: once it is applied the snapshot
\* is idle (isLive = false, sessionKind = none, no playback).
C5_StaleStartStaysIdle ==
    lastOp = "start.ok.stale" => Idle(streamData)

\* C6: immediately after a stopStream whose remote stop request succeeds the
\* snapshot is the idle baseline and neither the ticker nor the poller
\* remains scheduled.
C6_StopIdleAndTimersOff ==
    lastOp \in {"stop.ok", "stop.ok.nextVideo"} =>
        /\ IdleBaseline(streamData)
        /\ tickerTimer = Undefined
        /\ ~pollerTimer

\* C7: a status response that does not report a live transmission sets
\* isLive = false, viewers = 0, bitrate = 0, uptime = '00:00:00' and
\* remoteHealth (wowzaStatus) = offline, whatever the snapshot was before.
C7_NotLiveForcesOffline ==
    lastOp = "refresh.notLive" =>
        /\ ~streamData.isLive
        /\ streamData.viewers = 0
        /\ streamData.bitrate = 0
        /\ streamData.uptime = "00:00:00"
        /\ streamData.wowzaStatus = "offline"

\* the not-live response arrived on a playlist session that was rendered live
C7_Witness ==
    /\ lastOp = "refresh.notLive"
    /\ pending = 1
    /\ rendered.isLive
    /\ rendered.streamType = "playlist"
    /\ streamData.startTime # Undefined

\* C8 as claimed: once the stopStream that an advance at the last index of a
\* non-looping playlist triggered has completed, the playback state is
\* cleared and the session is idle.
C8_AdvanceAtEndClears ==
    lastOp \in {"stop.ok.nextVideo", "stop.failed.nextVideo"} => Idle(streamData)

\* C8 amended: the advance at the last index of a non-looping playlist merges
\* nothing and sends one stop request; when that request succeeds the
\* snapshot is idle, when it fails the snapshot is left as it was.
C8_AdvanceAtEndStops ==
    /\ [](lastOp = "stop.ok.nextVideo" => Idle(streamData))
    /\ [][/\ lastOp' = "nextVideo.stop" =>
                /\ ReadPlaylist.currentVideoIndex + 1 = Len(ReadPlaylist.videos)
                /\ ~ReadPlaylist.loop
                /\ streamData' = streamData
                /\ stopCalls' = Append(stopCalls, [origin |-> "nextVideo"])
          /\ lastOp' = "stop.failed.nextVideo" => streamData' = streamData]_vars

\* the stop an advance triggered has succeeded
C8_Witness ==
    /\ lastOp = "stop.ok.nextVideo"
    /\ rendered.currentPlaylist # Undefined
    /\ ~rendered.currentPlaylist.loop

\* nextVideo applied k times, each time to the playlist the previous one left;
\* Undefined once an application stops the stream
RECURSIVE AdvanceTimes(_, _)
AdvanceTimes(playlist, k) ==
    IF k = 0 THEN playlist
    ELSE IF NextVideoStops(playlist) THEN Undefined
    ELSE AdvanceTimes(NextVideoUpdate(playlist), k - 1)

LoopCycles(playlist) ==
    (playlist # Undefined /\ playlist.loop) =>
        /\ ~NextVideoStops(playlist)
        /\ NextVideoUpdate(playlist).currentVideoIndex =
              (playlist.currentVideoIndex + 1) % Len(playlist.videos)
        /\ AdvanceTimes(playlist, Len(playlist.videos)) = playlist

\* C9: on a playlist with loop = true an advance never stops the session and
\* yields index (i + 1) mod n, and n advances in succession return to i.
C9_LoopAdvanceCycles ==
    /\ LoopCycles(Playlist)
    /\ LoopCycles(ReadPlaylist)
    /\ lastOp = "nextVideo.stop" => ~ReadPlaylist.loop
    /\ (lastOp = "nextVideo" /\ ReadPlaylist.loop) =>
          Playlist = [ReadPlaylist EXCEPT !.currentVideoIndex =
                         (ReadPlaylist.currentVideoIndex + 1) % Len(ReadPlaylist.videos)]

\* an advance has wrapped a looping two-video playlist from its last video
C9_Witness ==
    /\ lastOp = "nextVideo"
    /\ ReadPlaylist.loop
    /\ Len(ReadPlaylist.videos) = 2
    /\ ReadPlaylist.currentVideoIndex = 1
    /\ Playlist.currentVideoIndex = 0

\* C10: retreat sets currentVideoIndex to i - 1 when i > 0 and to n - 1 when
\* i = 0, whatever the loop flag; the result is in [0, n) and retreat neither
\* calls stopStream nor clears the playback state.
C10_RetreatWraps ==
    /\ [](lastOp = "previousVideo" =>
            /\ Playlist = [ReadPlaylist EXCEPT !.currentVideoIndex =
                              IF ReadPlaylist.currentVideoIndex > 0
                              THEN ReadPlaylist.currentVideoIndex - 1
                              ELSE Len(ReadPlaylist.videos) - 1]
            /\ Playlist.currentVideoIndex \in 0..(Len(Playlist.videos) - 1))
    /\ [][lastOp' \in {"previousVideo", "previousVideo.noPlaylist"} =>
            /\ stopCalls' = stopCalls
            /\ (ReadPlaylist # Undefined => streamData'.currentPlaylist # Undefined)
            /\ (ReadPlaylist = Undefined => streamData' = streamData)]_vars

\* a retreat has wrapped a non-looping two-video playlist from its first video
C10_Witness ==
    /\ lastOp = "previousVideo"
    /\ ~ReadPlaylist.loop
    /\ Len(ReadPlaylist.videos) = 2
    /\ ReadPlaylist.currentVideoIndex = 0
    /\ Playlist.currentVideoIndex = 1

\* the indices playVideo is called with: one below, all of, and one past the
\* longest playlist
SeekIndices == -1..MaxVideos

\* C11: playVideo with an index outside [0, length) leaves currentVideoIndex
\* and every other field of the snapshot unchanged and merges nothing; with an
\* index inside [0, length) it sets currentVideoIndex to exactly that index.
C11_SeekInRangeOnly ==
    [][\A index \in SeekIndices :
          (ReadPlaylist # Undefined /\ PlayVideo(index)) =>
              IF 0 <= index /\ index < Len(ReadPlaylist.videos)
              THEN /\ streamData'.currentPlaylist.currentVideoIndex = index
                   /\ lastOp' = "playVideo"
              ELSE /\ streamData' = streamData
                   /\ pending' = pending
                   /\ lastOp' = "playVideo.ignored"]_vars

\* a seek one past the end of a two-video playlist has been ignored, after a
\* seek to its last video
C11_Witness ==
    /\ lastOp = "playVideo.ignored"
    /\ Playlist # Undefined
    /\ Len(Playlist.videos) = 2
    /\ Playlist.currentVideoIndex = 1
    /\ ReadPlaylist.currentVideoIndex = 1

PlatformStatus(sd, k) == sd.platforms[k].status

\* the edges of the platform state machine
PlatformEdges ==
    { <<"disconnected", "connecting">>, <<"connecting", "connected">>,
      <<"connecting", "error">>, <<"connected", "disconnected">>,
      <<"error", "disconnected">>, <<"connected", "error">>, <<"error", "error">> }

\* C12: under any interleaving of connectToPlatform and disconnectFromPlatform
\* calls, every change of a platform's status follows an edge of the state
\* machine: never disconnected -> connected directly, never a revert from
\* connecting to disconnected.
C12_StatusFollowsEdges ==
    [][\A k \in DOMAIN streamData.platforms :
          PlatformStatus(streamData', k) # PlatformStatus(streamData, k) =>
              <<PlatformStatus(streamData, k), PlatformStatus(streamData', k)>>
                  \in PlatformEdges]_vars

\* C13: when a status poll fails with a transport or parse error the only
\* field of the snapshot that changes is remoteHealth (wowzaStatus), which
\* becomes error; the call ends in its catch block, which does not rethrow.
C13_PollFailureOnlyHealth ==
    [][\A i \in 1..MaxCalls :
          RefreshError(i) =>
              /\ streamData' = [streamData EXCEPT !.wowzaStatus = "error"]
              /\ Len(refreshCalls') = Len(refreshCalls) - 1
              /\ lastOp' = "refresh.error"]_vars

\* a poll failed on a live playlist session that carries the figures of an
\* earlier live poll
C13_Witness ==
    /\ lastOp = "refresh.error"
    /\ streamData.isLive
    /\ streamData.streamType = "playlist"
    /\ streamData.currentPlaylist # Undefined
    /\ streamData.startTime # Undefined
    /\ streamData.viewers = Transmission.stats.viewers
    /\ streamData.wowzaStatus = "error"

\* the steps in which a start or stop command rejects to its caller
\* (lines 164, 215, 219 and 254, 258)
Rejections == {"start.rejected", "start.failed", "stop.failed", "stop.failed.nextVideo"}

\* C14: a startPlaylistStream that fails (playlist not found, video list not
\* loaded, empty video list, success = false, network error) and a stopStream
\* that fails (success = false, network error) reject and merge nothing: the
\* snapshot is left as it was.  A start that fails before the start request
\* (an empty playlist among them) sends no request, and after a failed stop
\* stopStream can be called again.
C14_FailedCommandsCommitNothing ==
    /\ [][/\ lastOp' \in Rejections =>
                (streamData' = streamData /\ pending' = pending)
          /\ (\/ StartNetworkError
              \/ \E reason \in StartLoadErrors : StartPlaylistStreamFails(reason)
              \/ \E playlistId \in PlaylistIds, options \in StartOptions :
                    StartPlaylistStream(playlistId, options, 0)
              \/ \E result \in StartResults : ~result.success /\ StartResponse(result)
              \/ \E i \in 1..MaxCalls : StopNetworkError(i)
              \/ \E i \in 1..MaxCalls, result \in StopResults :
                    ~result.success /\ StopResponse(i, result))
                => lastOp' \in Rejections
          /\ lastOp' = "start.rejected" =>
                (startCall = Undefined /\ startCall' = Undefined)]_vars
    /\ [](lastOp \in {"stop.failed", "stop.failed.nextVideo"} => ENABLED StopStream)

\* a stop was refused on a live playlist session, which is still live
C14_Witness ==
    /\ lastOp = "stop.failed"
    /\ streamData.isLive
    /\ streamData.currentPlaylist # Undefined
    /\ rendered.isLive

\* C15: the ticker and the poller fire only while isLive = true: once isLive
\* has flipped to false, by a successful stop or a not-live poll, neither
\* interval callback runs until isLive is true again.  (A fire changes isLive
\* in no way, so the state after a fire shows isLive as the fire found it.)
C15_FiresOnlyWhileLive ==
    lastOp \in {"ticker.fire", "poller.fire"} => streamData.isLive

\* C16: togglePlayPause flips the isPlaying it read and leaves
\* currentVideoIndex, the video sequence, loop and shuffle of the snapshot as
\* they are, also when the snapshot has been changed by an advance, retreat
\* or seek since the render whose closure the handler reads.
C16_ToggleKeepsIndex ==
    [][(lastOp' = "togglePlayPause" /\ Playlist # Undefined) =>
          /\ streamData'.currentPlaylist.isPlaying = ~ReadPlaylist.isPlaying
          /\ streamData'.currentPlaylist.currentVideoIndex = Playlist.currentVideoIndex
          /\ streamData'.currentPlaylist.videos = Playlist.videos
          /\ streamData'.currentPlaylist.loop = Playlist.loop
          /\ streamData'.currentPlaylist.shuffle = Playlist.shuffle]_vars

\* the video lists the remote can have returned for the sequence a call sent
IsPermutationOfFetched(finalVideos) ==
    \E n \in 1..MaxVideos :
        LET fetched == [i \in 1..n |-> PlaylistVideos(n)[i].videos] IN
          /\ Len(finalVideos) = n
          /\ \A v \in 1..n :
                Cardinality({i \in 1..n : finalVideos[i] = fetched[v]}) =
                Cardinality({i \in 1..n : fetched[i] = fetched[v]})

InFetchedOrder(finalVideos) ==
    finalVideos = [i \in 1..Len(finalVideos) |-> PlaylistVideos(Len(finalVideos))[i].videos]

\* C17: when startPlaylistStream succeeds one merge sets isLive = true,
\* sessionKind = playlist, startTime = now, viewers = 0, the nominal bitrate,
\* remoteHealth = online and a playback state with currentVideoIndex = 0,
\* isPlaying = true, loop defaulting to true, shuffle defaulting to false, and
\* the video sequence sent in the start request, which is a permutation of the
\* fetched list and is in the fetched order when shuffle is false.
C17_StartInstallsSession ==
    [][\A result \in StartResults : (result.success /\ StartResponse(result)) =>
          /\ pending' = pending + 1
          /\ streamData'.isLive
          /\ streamData'.streamType = "playlist"
          /\ streamData'.startTime = Date(now)
          /\ streamData'.viewers = 0
          /\ streamData'.bitrate = NominalBitrate
          /\ streamData'.wowzaStatus = "online"
          /\ streamData'.currentPlaylist.currentVideoIndex = 0
          /\ streamData'.currentPlaylist.isPlaying
          /\ streamData'.currentPlaylist.loop =
                (IF "loop" \in DOMAIN startCall.options THEN startCall.options.loop ELSE TRUE)
          /\ streamData'.currentPlaylist.shuffle =
                (IF "shuffle" \in DOMAIN startCall.options THEN startCall.options.shuffle ELSE FALSE)
          /\ streamData'.currentPlaylist.videos = startCall.finalVideos
          /\ IsPermutationOfFetched(startCall.finalVideos)
          /\ (~streamData'.currentPlaylist.shuffle => InFetchedOrder(startCall.finalVideos))
          /\ \A f \in DOMAIN streamData \ DOMAIN StartPatch(startCall, result, now) :
                streamData'[f] = streamData[f]]_vars

\* a shuffled start of two videos has succeeded with the order reversed
C17_Witness ==
    /\ lastOp = "start.ok"
    /\ Playlist.shuffle
    /\ ~Playlist.loop
    /\ Playlist.videos = <<2, 1>>
    /\ Playlist.currentVideoIndex = 0
    /\ streamData.isLive

\* a status poll is issued: by the poller interval or by a consumer's call
PollIssued == lastOp \in {"poller.fire", "refresh.call"}

\* C18: the reconciliation loop is self-healing: whenever a failed status
\* poll has set remoteHealth (wowzaStatus) = error, the failure of the initial
\* poll on mount included, eventually another status poll is issued or
\* remoteHealth is no longer error: error is not stayed in forever without
\* polling again.
C18_ErrorPollsAgain ==
    (lastOp = "refresh.error") ~> (PollIssued \/ streamData.wowzaStatus # "error")

\* C19: the response, reporting live, of a status poll that was sent while
\* the session was live and that arrives after a stopStream has succeeded
\* does not set isLive back to true.
C19_StalePollStaysStopped ==
    lastOp = "refresh.live.stale" => ~streamData.isLive

\* the fields refreshStreamStatus is claimed never to modify
RefreshFrame ==
    {"streamType", "currentPlaylist", "startTime", "streamUrl", "streamName",
     "duration", "platforms"}

\* C20: refreshStreamStatus, whatever the remote answers (live with a
\* transmission, not live, success = false, is_live = true without a
\* transmission, a failure), never modifies sessionKind, the playback state,
\* startTime, streamUrl, streamName, duration or the platforms; is_live = true
\* without a transmission is handled as not live: isLive = false,
\* remoteHealth = offline.
C20_RefreshFrame ==
    [][/\ \A i \in 1..MaxCalls :
             ((\E result \in StatusResults : RefreshResponse(i, result)) \/ RefreshError(i))
                => \A f \in RefreshFrame : streamData'[f] = streamData[f]
       /\ \A i \in 1..MaxCalls, result \in StatusResults :
             (result.is_live /\ result.transmission = Undefined /\ RefreshResponse(i, result))
                => /\ ~streamData'.isLive
                   /\ streamData'.wowzaStatus = "offline"
                   /\ streamData'.viewers = 0
                   /\ streamData'.bitrate = 0
                   /\ streamData'.uptime = "00:00:00"
                   /\ lastOp' = "refresh.notLive"]_vars

\* a status response was merged into a live playlist session whose ticker
\* had counted a second: the session fields are still there
C20_Witness ==
    /\ lastOp \in {"refresh.notLive", "refresh.live"}
    /\ streamData.streamType = "playlist"
    /\ streamData.currentPlaylist # Undefined
    /\ streamData.startTime # Undefined
    /\ streamData.streamUrl # ""
    /\ streamData.duration = 1

====
